---------------------------- MODULE Spec2Model ----------------------------
(***************************************************************************)
(* State-machine model of scripts/daily-update.py: the markdown food-log   *)
(* parser (parse_food_log), the workout parser (parse_workouts), the       *)
(* metrics fetch (get_fitbit_data) and the aggregator/publisher            *)
(* (update_dashboard).                                                     *)
(*                                                                         *)
(* Text is modelled by its structure.  A log is a sequence of "## " chunks *)
(* (what re.split(r'^## ') returns); a chunk is its first line (the        *)
(* heading) and its body lines; a line is a record of the features the     *)
(* script's regular expressions look at.  Each regular expression is a     *)
(* predicate or an extraction over those records.  Gram figures are kept   *)
(* in tenths of a gram so that int(float(x)) is a real truncation.         *)
(* An optional value is a sequence of length 0 or 1.                       *)
(***************************************************************************)
EXTENDS Integers, Sequences, FiniteSets, TLC

VARIABLES
    doc,          \* parser specifications: the log handed to the parsers
    foodOut,      \* parser specifications: what parse_food_log returned
    workOut,      \* parser specifications: what parse_workouts returned
    dataFile,     \* health-data.json: [ok |-> readable, days |-> its "days"]
    logs,         \* memory/health/<date>.md for every date: optional log
    pc,           \* position of update_dashboard
    target,       \* date_str of the current run
    data,         \* data["days"] as loaded by the current run
    meals,        \* meals returned by parse_food_log in the current run
    totals,       \* totals returned by parse_food_log in the current run
    workouts,     \* workouts returned by parse_workouts in the current run
    fitbit,       \* metrics returned by get_fitbit_data in the current run
    result,       \* "none" | "True" | "False" | "raised"
    events,       \* external effects of the current run, in order
    fetchFailed,  \* the current run's fetch raised internally
    startFile,    \* dataFile when the current run started
    run,          \* number of runs started
    prev,         \* the previous run: its target and whether it wrote
    failedAt      \* per date: the run whose build/deploy failed for it (0: none)

parseVars == <<doc, foodOut, workOut>>
pipeVars  == <<dataFile, logs, pc, target, data, meals, totals, workouts,
               fitbit, result, events, fetchFailed, startFile, run, prev,
               failedAt>>
vars      == <<doc, foodOut, workOut, dataFile, logs, pc, target, data, meals,
               totals, workouts, fitbit, result, events, fetchFailed,
               startFile, run, prev, failedAt>>

-----------------------------------------------------------------------------
(* Bounds *)

MaxLines    == 3   \* body lines of a log, over all its chunks
MaxSections == 2   \* "## " chunks of a log
MaxWLines   == 2   \* lines of a workout section
MaxDate     == 3   \* calendar dates 1..MaxDate
MaxRuns     == 3   \* runs of update_dashboard in one behaviour

-----------------------------------------------------------------------------
(* Optional values and small helpers *)

None == <<>>

Some(v) == <<v>>

Get(opt, default) == IF opt = None THEN default ELSE opt[1]

RECURSIVE SumSeq(_)
SumSeq(s) == IF s = <<>> THEN 0 ELSE Head(s) + SumSeq(Tail(s))

\* int(float(x)) of a gram figure written in tenths of a gram
TruncGrams(tenths) == tenths \div 10


-----------------------------------------------------------------------------
(* parse_food_log: the structure of a log *)

\* A body line.  indent: leading whitespace; bullet: "- "; bold: the
\* "**name**" right after the bullet; cal: a "<digits>cal" figure; dash: a
\* dash-like separator stands directly before that figure; protein, fat,
\* carbs: "<number>g protein|fat|carb" figures in tenths of a gram; words: the
\* line's leading run of [\w\s&] characters, trimmed; whole: that run is the
\* whole line.
Line(indent, bullet, bold, dash, cal, protein, fat, carbs, words, whole) ==
    [indent |-> indent, bullet |-> bullet, bold |-> bold, dash |-> dash,
     cal |-> cal, protein |-> protein, fat |-> fat, carbs |-> carbs,
     words |-> words, whole |-> whole]

\* "- **Rice** — 100cal, 3g protein, 1g fat, 22g carbs"
LRice == Line(FALSE, TRUE, Some("Rice"), TRUE, Some(100), Some(30), Some(10),
              Some(220), "", FALSE)

\* "- **Ice water**"
LWater == Line(FALSE, TRUE, Some("Ice water"), FALSE, None, None, None, None,
               "", FALSE)

\* "- **Grilled chicken** (4oz; 300cal raw, 5.5g fat)"
LChicken == Line(FALSE, TRUE, Some("Grilled chicken"), FALSE, Some(300), None,
                 Some(55), None, "", FALSE)

\* "  - ~250cal, ~45.5g protein"
LSub == Line(TRUE, TRUE, None, FALSE, Some(250), Some(455), None, None, "",
             FALSE)

\* "Leftovers from Sunday"
LText == Line(FALSE, FALSE, None, FALSE, None, None, None, None,
              "Leftovers from Sunday", TRUE)

BodyLines == {LRice, LWater, LChicken, LSub, LText}

\* The first line of a "## " chunk.  word: its leading word sequence (none
\* when it does not begin with a word character); time: the content of a
\* parenthesized clock time; whole: the line holds [\w\s&] characters only.
Heading(word, time, whole) == [word |-> word, time |-> time, whole |-> whole]

\* "## Lunch"
HLunch == Heading(Some("Lunch"), None, TRUE)

\* "## Evening Snacks (~4:30 PM)"
HSnacks == Heading(Some("Evening Snacks"), Some("4:30 PM"), FALSE)

\* "## (late)": no leading word character, no clock time
HLate == Heading(None, None, FALSE)

Headings == {HLunch, HSnacks, HLate}

\* "**Daily totals:** ~1,850 cal, 95.7g protein, 60g fat, 180g carbs" with any
\* of its figures left out; the calorie figure, when there, directly follows
\* the bold label and the protein figure comes after it.
TotalsLines ==
    [cal : {None, Some(0), Some(1850)}, protein : {None, Some(5), Some(957)},
     fat : {None, Some(600)}, carbs : {None, Some(1800)}]

Log(t, sections, workout) ==
    [totals |-> t, sections |-> sections, workout |-> workout]

\* The chunks from chunk i on: chunk j has the heading heads[j] and, of the
\* body lines flat, those after cuts[j - 1] up to cuts[j]
RECURSIVE ChunkSeq(_, _, _, _)
ChunkSeq(heads, cuts, flat, i) ==
    IF i > Len(cuts) THEN <<>>
    ELSE <<[head |-> heads[i],
            body |-> SubSeq(flat, (IF i = 1 THEN 0 ELSE cuts[i - 1]) + 1, cuts[i])]>>
         \o ChunkSeq(heads, cuts, flat, i + 1)

\* Meals under the totals line of a log that has one
TotalsBodies ==
    {b \in {<<>>, <<LWater>>, <<LRice>>, <<LChicken, LSub>>} : Len(b) <= MaxLines}

-----------------------------------------------------------------------------
(* parse_food_log: the regular expressions *)

\* re.match(r'\s*-\s+\*\*(.+?)\*\*', line)
ItemMatch(line) == line.bullet /\ line.bold # None

\* re.search(r'[—\-]+\s*~?([\d,]+)\s*cal', line): a calorie figure directly
\* after a dash, which is the separator or, on a bullet without a bold name,
\* the bullet itself
CalOnLine(line) ==
    /\ line.cal # None
    /\ line.dash \/ (line.bullet /\ line.bold = None)

\* re.match(r'\s+-\s+~?([\d,]+)\s*cal', next_line)
SubCal(line) ==
    line.indent /\ line.bullet /\ line.bold = None /\ ~line.dash /\ line.cal # None

\* int(float(m.group(1))) if m else 0, for '([\d.]+)g\s*protein|fat|carb'
Grams(fig) == IF fig = None THEN 0 ELSE TruncGrams(fig[1])

\* re.match(r'.*?\(~?([\d:]+\s*(?:AM|PM|am|pm)?)\)', section): "." stops at
\* the end of the chunk's first line
TimeMatch(section) == section.head.time

\* What [\w\s&]* runs over in the body once it has run over the whole heading
RECURSIVE WordRun(_)
WordRun(body) ==
    IF body = <<>> THEN <<>>
    ELSE <<Head(body).words>> \o
         (IF Head(body).whole THEN WordRun(Tail(body)) ELSE <<>>)

\* str.strip() of a label kept as its lines: trailing empty lines go
RECURSIVE Strip(_)
Strip(label) ==
    IF label # <<>> /\ label[Len(label)] = ""
    THEN Strip(SubSeq(label, 1, Len(label) - 1))
    ELSE label

\* re.match(r'(\w[\w\s&]*)', section): \s also matches the line break, so the
\* match runs on into the body
SectionNameMatch(section) ==
    IF section.head.word = None THEN None
    ELSE Some(Strip(<<section.head.word[1]>> \o
                    (IF section.head.whole THEN WordRun(section.body) ELSE <<>>)))

CurrentTime(section, current_time) ==
    IF TimeMatch(section) # None THEN <<TimeMatch(section)[1]>>
    ELSE IF SectionNameMatch(section) # None THEN SectionNameMatch(section)[1]
    ELSE current_time

\* The chunk's first line as a line of section.split('\n')
HeadLine(head) ==
    Line(FALSE, FALSE, None, FALSE, None, None, None, None,
         Get(head.word, ""), head.whole)

SplitLines(section) == <<HeadLine(section.head)>> \o section.body

-----------------------------------------------------------------------------
(* parse_food_log: the line scan *)

Meal(time, name, parse_line) ==
    [time |-> time, name |-> name, calories |-> parse_line.cal[1],
     protein |-> Grams(parse_line.protein), fat |-> Grams(parse_line.fat),
     carbs |-> Grams(parse_line.carbs)]

\* A skip that also lets the loop's trailing "i += 1" run
SkipItemTwice(i) == i + 2

\* "i += 1; continue" of an item without a calorie figure
SkipItem(i) == i + 1

\* "i += 1" consuming the sub-bullet, then the loop's trailing "i += 1"
ConsumeSub(i) == i + 2

\* while i < len(lines), with i counted from 1
RECURSIVE ScanLines(_, _, _, _)
ScanLines(lines, i, current_time, acc) ==
    IF i > Len(lines) THEN acc
    ELSE LET line == lines[i] IN
         IF ~ItemMatch(line) THEN ScanLines(lines, i + 1, current_time, acc)
         ELSE IF CalOnLine(line)
              THEN ScanLines(lines, i + 1, current_time,
                             Append(acc, Meal(current_time, line.bold[1], line)))
         ELSE IF i + 1 <= Len(lines) /\ SubCal(lines[i + 1])
              THEN ScanLines(lines, ConsumeSub(i), current_time,
                             Append(acc, Meal(current_time, line.bold[1],
                                              lines[i + 1])))
         ELSE ScanLines(lines, SkipItem(i), current_time, acc)

\* for section in sections
RECURSIVE ScanSections(_, _, _)
ScanSections(sections, current_time, acc) ==
    IF sections = <<>> THEN acc
    ELSE LET t == CurrentTime(Head(sections), current_time) IN
         ScanSections(Tail(sections), t,
                      ScanLines(SplitLines(Head(sections)), 1, t, acc))

-----------------------------------------------------------------------------
(* parse_food_log: the totals *)

ZeroTotals == [calories |-> 0, protein |-> 0, fat |-> 0, carbs |-> 0]

\* totals_match: the label, the calorie figure and, after it, the protein
\* figure, all in one pattern
TotalsMatch(t) == t # None /\ t[1].cal # None /\ t[1].protein # None

FatMatch(t) == t # None /\ t[1].fat # None

CarbsMatch(t) == t # None /\ t[1].carbs # None

LineTotals(t) ==
    [calories |-> IF TotalsMatch(t) THEN t[1].cal[1] ELSE 0,
     protein  |-> IF TotalsMatch(t) THEN TruncGrams(t[1].protein[1]) ELSE 0,
     fat      |-> IF FatMatch(t) THEN TruncGrams(t[1].fat[1]) ELSE 0,
     carbs    |-> IF CarbsMatch(t) THEN TruncGrams(t[1].carbs[1]) ELSE 0]

MealSum(ms, f) == SumSeq([k \in 1..Len(ms) |-> ms[k][f]])

\* "Fill in any missing totals from meal sums"
Backfill(t, ms) ==
    IF ms = <<>> THEN t
    ELSE [f \in DOMAIN t |-> IF t[f] = 0 THEN MealSum(ms, f) ELSE t[f]]

\* (None, None) when the log file is missing, (meals, totals) otherwise
ParseFoodLog(log) ==
    IF log = None THEN [found |-> FALSE, meals |-> <<>>, totals |-> ZeroTotals]
    ELSE LET ms == ScanSections(log[1].sections, <<>>, <<>>) IN
         [found |-> TRUE, meals |-> ms,
          totals |-> Backfill(LineTotals(log[1].totals), ms)]


-----------------------------------------------------------------------------
(* parse_workouts *)

\* A line of the workout section.  numbered: it starts "N. "; name: the
\* exercise name; annot: a parenthesized annotation follows the name; dash: a
\* dash-like separator follows; weight: the integer right after the dash;
\* unit: "lb", "lbs", "pound" or "pounds" follows the weight; xfig: an "N×M"
\* or "N x M" figure, M kept as text; clause: a "N sets (a, b, c)" clause, its
\* stated count and the characters between the parentheses.
WorkoutLines ==
    [numbered : BOOLEAN, name : {"Leg Press"}, annot : BOOLEAN, dash : BOOLEAN,
     weight : {None, Some(200)}, unit : BOOLEAN,
     xfig : {None, Some([sets |-> 4, reps |-> "8"])},
     clause : {None, Some([count |-> 3,
                           inner |-> <<"10", ",", " ", "10", ",", " ", "6">>])}]

\* re.search(r'## Workout.*?\n(.*?)(?=\n## |\Z)', content): the lines of the
\* first workout section
WorkoutSection(log) == log.workout

\* re.match(r'\s*\d+\.\s+(.+?)\s*(?:\(.*?\))?\s*[—\-]+\s*(\d+)\s*(?:lbs?|pounds?)', line)
ExMatch(line) ==
    line.numbered /\ line.dash /\ line.weight # None /\ line.unit

\* re.search(r'(\d+)\s*[×x]\s*(\d+)', line)
SetsMatch(line) == line.xfig

\* re.search(r'sets?\s*\(([^)]+)\)', line): the clause's content only
VarReps(line) == IF line.clause = None THEN None ELSE Some(line.clause[1].inner)

\* .replace(" ", "")
RemoveSpaces(chars) == SelectSeq(chars, LAMBDA c : c # " ")

Workout(line) ==
    [name   |-> line.name,
     weight |-> line.weight[1],
     sets   |-> IF SetsMatch(line) # None THEN SetsMatch(line)[1].sets ELSE 0,
     reps   |-> IF VarReps(line) # None THEN RemoveSpaces(VarReps(line)[1])
                ELSE IF SetsMatch(line) # None THEN <<SetsMatch(line)[1].reps>>
                ELSE <<"0">>]

RECURSIVE ScanWorkout(_)
ScanWorkout(lines) ==
    IF lines = <<>> THEN <<>>
    ELSE (IF ExMatch(Head(lines)) THEN <<Workout(Head(lines))>> ELSE <<>>)
         \o ScanWorkout(Tail(lines))

ParseWorkouts(log) ==
    IF log = None THEN <<>>
    ELSE IF WorkoutSection(log[1]) = None THEN <<>>
    ELSE ScanWorkout(WorkoutSection(log[1])[1])

-----------------------------------------------------------------------------
(* get_fitbit_data *)

\* The import and the three api_get calls of one fetch.  status: "ok",
\* "raise" (the call raises) or "malformed" (the response is not the shape the
\* code reads, so reading it raises); a key the response does not carry is
\* None; weight is the 'weight' list, each entry its 'weight' value or None
\* for an entry without that key.
FetchEnv(import, activity, summary, sleep, asleep, weight, entries) ==
    [import |-> import,
     activity |-> [status |-> activity, summary |-> summary],
     sleep |-> [status |-> sleep, totalMinutesAsleep |-> asleep],
     weight |-> [status |-> weight, weight |-> entries]]

FullSummary ==
    [steps |-> Some(5000), caloriesOut |-> Some(2200),
     restingHeartRate |-> Some(60), fairlyActiveMinutes |-> Some(10),
     veryActiveMinutes |-> Some(5)]

EmptySummary ==
    [steps |-> None, caloriesOut |-> None, restingHeartRate |-> None,
     fairlyActiveMinutes |-> None, veryActiveMinutes |-> None]

\* A day with every figure; a day with none; and one fetch per way to fail
FetchEnvs ==
    {FetchEnv(TRUE, "ok", FullSummary, "ok", Some(420), "ok", <<Some(180)>>),
     FetchEnv(TRUE, "ok", EmptySummary, "ok", None, "ok", <<>>),
     FetchEnv(FALSE, "ok", FullSummary, "ok", Some(420), "ok", <<Some(180)>>),
     FetchEnv(TRUE, "raise", FullSummary, "ok", Some(420), "ok", <<Some(180)>>),
     FetchEnv(TRUE, "malformed", FullSummary, "ok", Some(420), "ok", <<Some(180)>>),
     FetchEnv(TRUE, "ok", FullSummary, "raise", Some(420), "ok", <<Some(180)>>),
     FetchEnv(TRUE, "ok", FullSummary, "ok", Some(420), "raise", <<Some(180)>>),
     FetchEnv(TRUE, "ok", FullSummary, "ok", Some(420), "ok", <<None>>)}

\* What raises inside the try block
FetchFails(env) ==
    \/ ~env.import
    \/ env.activity.status # "ok"
    \/ env.sleep.status # "ok"
    \/ env.weight.status # "ok"
    \/ env.weight.weight # <<>> /\ env.weight.weight[1] = None

\* A placeholder that reports the weight as 0 instead of absent
PlaceholderZeroWeight ==
    [steps |-> 0, caloriesBurned |-> 0, restingHR |-> None, activeMinutes |-> 0,
     sleepMinutes |-> 0, weight |-> Some(0)]

\* The dictionary of the except branch
Placeholder ==
    [steps |-> 0, caloriesBurned |-> 0, restingHR |-> None, activeMinutes |-> 0,
     sleepMinutes |-> 0, weight |-> None]

GetFitbitData(env) ==
    IF FetchFails(env) THEN Placeholder
    ELSE LET summary == env.activity.summary IN
         [steps          |-> Get(summary.steps, 0),
          caloriesBurned |-> Get(summary.caloriesOut, 0),
          restingHR      |-> summary.restingHeartRate,
          activeMinutes  |-> Get(summary.fairlyActiveMinutes, 0)
                             + Get(summary.veryActiveMinutes, 0),
          sleepMinutes   |-> Get(env.sleep.totalMinutesAsleep, 0),
          weight         |-> IF env.weight.weight # <<>>
                             THEN env.weight.weight[1] ELSE None]


-----------------------------------------------------------------------------
(* update_dashboard: the dataset *)

\* ISO dates, which compare as strings the way these numbers compare
Dates == 1..MaxDate

\* "## Lunch" with one meal, explicit totals and a workout section
LogA ==
    Log(Some([cal |-> Some(1850), protein |-> Some(957), fat |-> Some(600),
              carbs |-> Some(1800)]),
        <<[head |-> HLunch, body |-> <<LRice>>]>>,
        Some(<<[numbered |-> TRUE, name |-> "Leg Press", annot |-> FALSE,
                dash |-> TRUE, weight |-> Some(200), unit |-> TRUE,
                xfig |-> Some([sets |-> 4, reps |-> "8"]), clause |-> None]>>))

\* "## Evening Snacks (~4:30 PM)" with one two-line meal, nothing else
LogB == Log(None, <<[head |-> HSnacks, body |-> <<LChicken, LSub>>]>>, None)

\* The log written for date d, when one was written
LogOf(d) == IF d % 2 = 1 THEN LogA ELSE LogB

\* The entry dictionary of update_dashboard
Entry(date_str, fb, tot, ms, ws) ==
    [date |-> date_str, weight |-> fb.weight, calories |-> tot.calories,
     protein |-> tot.protein, fat |-> tot.fat, carbs |-> tot.carbs,
     steps |-> fb.steps, caloriesBurned |-> fb.caloriesBurned,
     restingHR |-> fb.restingHR, activeMinutes |-> fb.activeMinutes,
     sleepMinutes |-> fb.sleepMinutes, meals |-> ms, workouts |-> ws]

\* A record an earlier run wrote for date d
OldEntry(d) ==
    Entry(d, [Placeholder EXCEPT !.steps = 1234], ParseFoodLog(Some(LogB)).totals,
          ParseFoodLog(Some(LogB)).meals, <<>>)

RECURSIVE Ascending(_)
Ascending(S) ==
    IF S = {} THEN <<>>
    ELSE LET m == CHOOSE x \in S : \A y \in S : x <= y IN
         <<m>> \o Ascending(S \ {m})

\* The datasets a behaviour may start from: one record per date, ascending
StartDatasets ==
    {[k \in 1..Len(Ascending(S)) |-> OldEntry(Ascending(S)[k])] : S \in SUBSET Dates}

\* existing_dates = [d["date"] for d in data["days"]]
ExistingDates(days) == {days[k].date : k \in 1..Len(days)}

\* A check that never finds the date
NeverExisting(date_str, days) == FALSE

\* date_str in existing_dates
AlreadyExists(date_str, days) == date_str \in ExistingDates(days)

\* if meals is None, with the check left out
NoDataIgnored(parsed) == FALSE

\* if meals is None
NoData(parsed) == ~parsed.found

RECURSIVE InsertByDate(_, _)
InsertByDate(sorted, e) ==
    IF sorted = <<>> THEN <<e>>
    ELSE IF e.date < Head(sorted).date THEN <<e>> \o sorted
    ELSE <<Head(sorted)>> \o InsertByDate(Tail(sorted), e)

RECURSIVE StableSort(_, _)
StableSort(days, sorted) ==
    IF days = <<>> THEN sorted
    ELSE StableSort(Tail(days), InsertByDate(sorted, Head(days)))

\* The list left as appended
SortSkipped(days) == days

\* data["days"].sort(key=lambda d: d["date"]): a stable sort
SortByDate(days) == StableSort(days, <<>>)

Event(step, ok) == [step |-> step, ok |-> ok]

-----------------------------------------------------------------------------
(* update_dashboard: one action per step of a run *)

\* update_dashboard(target_date) is called
Start(d) ==
    /\ pc \in {"idle", "done"}
    /\ run < MaxRuns
    /\ run' = run + 1
    /\ pc' = "load"
    /\ target' = d
    /\ prev' = IF pc = "idle" THEN prev
               ELSE [target |-> target,
                     fresh  |-> /\ startFile.ok
                                /\ logs[target] # None
                                /\ ~AlreadyExists(target, startFile.days)]
    /\ startFile' = dataFile
    /\ data' = <<>>
    /\ meals' = <<>>
    /\ totals' = ZeroTotals
    /\ workouts' = <<>>
    /\ fitbit' = None
    /\ result' = "none"
    /\ events' = <<>>
    /\ fetchFailed' = FALSE
    /\ UNCHANGED <<dataFile, logs, failedAt, parseVars>>

\* with open(DATA_FILE) as f: data = json.load(f)
Load ==
    /\ pc = "load"
    /\ IF dataFile.ok
       THEN data' = dataFile.days /\ pc' = "check" /\ result' = result
       ELSE data' = data /\ pc' = "done" /\ result' = "raised"
    /\ UNCHANGED <<dataFile, logs, target, meals, totals, workouts, fitbit,
                   events, fetchFailed, startFile, run, prev, failedAt, parseVars>>

\* if date_str in existing_dates: return False
CheckExisting ==
    /\ pc = "check"
    /\ IF AlreadyExists(target, data)
       THEN pc' = "done" /\ result' = "False"
       ELSE pc' = "parse" /\ result' = result
    /\ UNCHANGED <<dataFile, logs, target, data, meals, totals, workouts, fitbit,
                   events, fetchFailed, startFile, run, prev, failedAt, parseVars>>

\* meals, totals = parse_food_log(date_str); if meals is None: return False
ParseFood ==
    /\ pc = "parse"
    /\ LET parsed == ParseFoodLog(logs[target]) IN
       /\ meals' = parsed.meals
       /\ totals' = parsed.totals
       /\ IF NoData(parsed)
          THEN pc' = "done" /\ result' = "False"
          ELSE pc' = "workouts" /\ result' = result
    /\ UNCHANGED <<dataFile, logs, target, data, workouts, fitbit, events,
                   fetchFailed, startFile, run, prev, failedAt, parseVars>>

\* workouts = parse_workouts(date_str)
ParseWork ==
    /\ pc = "workouts"
    /\ workouts' = ParseWorkouts(logs[target])
    /\ pc' = "fetch"
    /\ UNCHANGED <<dataFile, logs, target, data, meals, totals, fitbit, result,
                   events, fetchFailed, startFile, run, prev, failedAt, parseVars>>

\* fitbit = get_fitbit_data(date_str)
Fetch ==
    /\ pc = "fetch"
    /\ \E env \in FetchEnvs :
          /\ fitbit' = Some(GetFitbitData(env))
          /\ fetchFailed' = FetchFails(env)
    /\ pc' = "write"
    /\ UNCHANGED <<dataFile, logs, target, data, meals, totals, workouts, result,
                   events, startFile, run, prev, failedAt, parseVars>>

\* Build entry; append, sort and json.dump
Write ==
    /\ pc = "write"
    /\ data' = SortByDate(Append(data, Entry(target, fitbit[1], totals, meals,
                                             workouts)))
    /\ dataFile' = [ok |-> TRUE, days |-> data']
    /\ events' = Append(events, Event("write", TRUE))
    /\ pc' = "build"
    /\ UNCHANGED <<logs, target, meals, totals, workouts, fitbit, result,
                   fetchFailed, startFile, run, prev, failedAt, parseVars>>

\* npm run build whose exit status is not looked at
BuildUnchecked ==
    /\ pc = "build"
    /\ \E ok \in BOOLEAN : events' = Append(events, Event("build", ok))
    /\ pc' = "deploy"
    /\ UNCHANGED <<dataFile, logs, target, data, meals, totals, workouts, fitbit,
                   result, fetchFailed, startFile, run, prev, failedAt, parseVars>>

\* subprocess.run(["npm", "run", "build"], check=True)
Build ==
    /\ pc = "build"
    /\ \E ok \in BOOLEAN :
          /\ events' = Append(events, Event("build", ok))
          /\ IF ok
             THEN pc' = "deploy" /\ result' = result /\ failedAt' = failedAt
             ELSE /\ pc' = "done"
                  /\ result' = "raised"
                  /\ failedAt' = [failedAt EXCEPT ![target] = run]
    /\ UNCHANGED <<dataFile, logs, target, data, meals, totals, workouts, fitbit,
                   fetchFailed, startFile, run, prev, parseVars>>

\* npm run deploy that puts the dataset back when it fails
DeployRollback ==
    /\ pc = "deploy"
    /\ \E ok \in BOOLEAN :
          /\ events' = Append(events, Event("deploy", ok))
          /\ IF ok
             THEN result' = "True" /\ failedAt' = failedAt /\ dataFile' = dataFile
             ELSE /\ result' = "raised"
                  /\ failedAt' = [failedAt EXCEPT ![target] = run]
                  /\ dataFile' = startFile
    /\ pc' = "done"
    /\ UNCHANGED <<logs, target, data, meals, totals, workouts, fitbit,
                   fetchFailed, startFile, run, prev, parseVars>>

\* subprocess.run(["npm", "run", "deploy"], check=True); return True
Deploy ==
    /\ pc = "deploy"
    /\ \E ok \in BOOLEAN :
          /\ events' = Append(events, Event("deploy", ok))
          /\ IF ok
             THEN result' = "True" /\ failedAt' = failedAt
             ELSE /\ result' = "raised"
                  /\ failedAt' = [failedAt EXCEPT ![target] = run]
    /\ pc' = "done"
    /\ UNCHANGED <<dataFile, logs, target, data, meals, totals, workouts, fitbit,
                   fetchFailed, startFile, run, prev, parseVars>>

\* No parser call is in progress in the pipeline's behaviours
ParseIdle == doc = None /\ foodOut = None /\ workOut = None

\* No run is in progress in the parsers' behaviours
PipeIdle ==
    /\ dataFile = [ok |-> TRUE, days |-> <<>>]
    /\ logs = [d \in Dates |-> None]
    /\ pc = "idle"
    /\ target = 1
    /\ data = <<>>
    /\ meals = <<>>
    /\ totals = ZeroTotals
    /\ workouts = <<>>
    /\ fitbit = None
    /\ result = "none"
    /\ events = <<>>
    /\ fetchFailed = FALSE
    /\ startFile = dataFile
    /\ run = 0
    /\ prev = [target |-> 1, fresh |-> FALSE]
    /\ failedAt = [d \in Dates |-> 0]

\* The dataset file is missing or unparseable, or holds a dataset; every date
\* has a log file or none
Init ==
    /\ ParseIdle
    /\ dataFile \in {[ok |-> FALSE, days |-> <<>>]}
                    \cup {[ok |-> TRUE, days |-> ds] : ds \in StartDatasets}
    /\ \E S \in SUBSET Dates :
          logs = [d \in Dates |-> IF d \in S THEN Some(LogOf(d)) ELSE None]
    /\ pc = "idle"
    /\ target = 1
    /\ data = <<>>
    /\ meals = <<>>
    /\ totals = ZeroTotals
    /\ workouts = <<>>
    /\ fitbit = None
    /\ result = "none"
    /\ events = <<>>
    /\ fetchFailed = FALSE
    /\ startFile = dataFile
    /\ run = 0
    /\ prev = [target |-> 1, fresh |-> FALSE]
    /\ failedAt = [d \in Dates |-> 0]

Next ==
    \/ \E d \in Dates : Start(d)
    \/ Load
    \/ CheckExisting
    \/ ParseFood
    \/ ParseWork
    \/ Fetch
    \/ Write
    \/ Build
    \/ Deploy

Spec == Init /\ [][Next]_vars

-----------------------------------------------------------------------------
(* The parsers on their own *)

\* parse_food_log(date_str) is called on the log
CallParseFoodLog ==
    /\ foodOut = None
    /\ foodOut' = Some(ParseFoodLog(doc))
    /\ UNCHANGED <<doc, workOut, pipeVars>>

\* The log file is missing; or it has no totals line and up to MaxSections
\* chunks holding up to MaxLines body lines together; or it has a totals line
\* and one chunk of meals
InitFood ==
    /\ \/ doc = None
       \/ \E n \in 0..MaxLines, k \in 1..MaxSections :
             \E flat \in [1..n -> BodyLines], heads \in [1..k -> Headings],
                cuts \in [1..k -> 0..n] :
                /\ cuts[k] = n
                /\ \A i \in 1..(k - 1) : cuts[i] <= cuts[i + 1]
                /\ doc = Some(Log(None, ChunkSeq(heads, cuts, flat, 1), None))
       \/ \E t \in TotalsLines, b \in TotalsBodies :
             doc = Some(Log(Some(t), <<[head |-> HLunch, body |-> b]>>, None))
    /\ foodOut = None
    /\ workOut = None
    /\ PipeIdle

SpecFood == InitFood /\ [][CallParseFoodLog]_vars

\* parse_workouts(date_str) is called on the log
CallParseWorkouts ==
    /\ workOut = None
    /\ workOut' = Some(ParseWorkouts(doc))
    /\ UNCHANGED <<doc, foodOut, pipeVars>>

\* The log file is missing; or it has no workout section; or it has one of up
\* to MaxWLines lines
InitWorkout ==
    /\ \/ doc = None
       \/ doc = Some(Log(None, <<[head |-> HLate, body |-> <<>>]>>, None))
       \/ \E n \in 0..MaxWLines :
             \E ls \in [1..n -> WorkoutLines] :
                doc = Some(Log(None, <<[head |-> HLate, body |-> <<>>]>>,
                               Some(SubSeq(ls, 1, n))))
    /\ foodOut = None
    /\ workOut = None
    /\ PipeIdle

SpecWorkout == InitWorkout /\ [][CallParseWorkouts]_vars


-----------------------------------------------------------------------------
(* Properties of update_dashboard, checked under Spec *)

Days == dataFile.days

RunActive == pc # "idle"

Steps == [k \in 1..Len(events) |-> events[k].step]

RecordsFor(d) == {k \in 1..Len(Days) : Days[k].date = d}

\* C1: a dataset that starts with pairwise distinct dates holds at most one
\* record per date after any runs; and a run for the date D of the run just
\* before it, which found a log and no record for D, returns False, invokes
\* nothing and leaves the dataset, with its one record for D, as it found it.
C1_OneRecordPerDate ==
    /\ dataFile.ok =>
          \A i, j \in 1..Len(Days) : Days[i].date = Days[j].date => i = j
    /\ (RunActive /\ prev.fresh /\ prev.target = target) =>
          /\ dataFile = startFile
          /\ events = <<>>
          /\ Cardinality(RecordsFor(target)) = 1
          /\ pc = "done" => result = "False"

C1_SecondRunRejected ==
    /\ pc = "done"
    /\ prev.fresh
    /\ prev.target = target
    /\ result = "False"
    /\ Cardinality(RecordsFor(target)) = 1

\* C2: a dataset that starts sorted ascending by date is sorted ascending by
\* date after every write, wherever the new record's date falls.
C2_SortedAscending ==
    dataFile.ok => \A k \in 1..(Len(Days) - 1) : Days[k].date <= Days[k + 1].date

C2_WroteEarliestDate ==
    /\ pc = "build"
    /\ Steps = <<"write">>
    /\ Len(startFile.days) >= 2
    /\ Days[1].date = target
    /\ \A k \in 1..Len(startFile.days) : target < startFile.days[k].date

\* C3 as stated: a run for a date without a log file leaves the dataset file
\* unchanged, invokes neither build nor deploy and returns False.
C3_AbsentLogReturnsFalse ==
    (pc = "done" /\ logs[target] = None) =>
        /\ dataFile = startFile
        /\ events = <<>>
        /\ result = "False"

\* C3 amended: a run for a date without a log file leaves the dataset file
\* unchanged and invokes neither build nor deploy; it returns False when the
\* dataset file could be loaded and raises at the load when it could not.
C3_AbsentLogNoEffect ==
    (RunActive /\ logs[target] = None) =>
        /\ dataFile = startFile
        /\ events = <<>>
        /\ pc = "done" => result = (IF startFile.ok THEN "False" ELSE "raised")

C3_AbsentLogRejected ==
    /\ pc = "done"
    /\ logs[target] = None
    /\ startFile.ok
    /\ ~AlreadyExists(target, startFile.days)
    /\ result = "False"
    /\ dataFile = startFile

\* C4: in every run the external steps are a prefix of write, build, deploy,
\* each at most once; the write is of this run's new record; deploy follows
\* only a build that exited with success; a failed build ends the run raised;
\* a rejected run and a run that could not load invoke nothing; and the run
\* returns True only after build and deploy both succeeded.
C4_WriteBuildDeployOrder ==
    /\ Steps \in {<<>>, <<"write">>, <<"write", "build">>,
                  <<"write", "build", "deploy">>}
    /\ events # <<>> =>
          /\ startFile.ok
          /\ ~AlreadyExists(target, startFile.days)
          /\ AlreadyExists(target, Days)
    /\ Len(events) = 3 => events[2].ok
    /\ (Len(events) = 2 /\ ~events[2].ok) => (pc = "done" /\ result = "raised")
    /\ (result = "False" \/ (result = "raised" /\ ~startFile.ok)) => events = <<>>
    /\ result = "True" =>
          (pc = "done" /\ Len(events) = 3 /\ events[2].ok /\ events[3].ok)

C4_FailedBuildAborts ==
    /\ pc = "done"
    /\ result = "raised"
    /\ Steps = <<"write", "build">>
    /\ ~events[2].ok

\* C6: a fetch that fails inside yields the placeholder (zero steps, calories
\* burned, active and sleep minutes; no resting heart rate, no weight) and the
\* run goes on to write the record with those metrics and to invoke build and,
\* after a successful build, deploy; the run raises only if build or deploy
\* fails.
C6_FetchFailureSwallowed ==
    fetchFailed =>
        /\ fitbit = Some([steps |-> 0, caloriesBurned |-> 0, activeMinutes |-> 0,
                          sleepMinutes |-> 0, restingHR |-> None, weight |-> None])
        /\ pc \in {"write", "build", "deploy", "done"}
        /\ pc # "write" =>
              /\ events # <<>> /\ events[1].step = "write"
              /\ \E k \in RecordsFor(target) :
                    /\ Days[k].steps = 0 /\ Days[k].caloriesBurned = 0
                    /\ Days[k].activeMinutes = 0 /\ Days[k].sleepMinutes = 0
                    /\ Days[k].restingHR = None /\ Days[k].weight = None
                    /\ Days[k].calories = totals.calories
                    /\ Days[k].meals = meals
        /\ pc = "done" =>
              /\ Len(events) >= 2 /\ events[2].step = "build"
              /\ events[2].ok => (Len(events) = 3 /\ events[3].step = "deploy")
              /\ result = (IF events[Len(events)].ok THEN "True" ELSE "raised")

C6_PublishedAfterFailedFetch ==
    /\ fetchFailed
    /\ pc = "done"
    /\ result = "True"
    /\ Steps = <<"write", "build", "deploy">>

\* C10: once build or deploy has failed in the run that wrote the record for a
\* date, that record stays in the dataset, and every later run for that date
\* gets no further than the duplicate check: it returns False and invokes
\* neither build nor deploy.
C10_FailedPublishNotRetried ==
    \A d \in Dates :
        failedAt[d] # 0 =>
            /\ dataFile.ok
            /\ AlreadyExists(d, Days)
            /\ (RunActive /\ target = d /\ run > failedAt[d]) =>
                  /\ events = <<>>
                  /\ pc \in {"load", "check", "done"}
                  /\ pc = "done" => result = "False"

C10_RerunAfterFailedPublish ==
    /\ pc = "done"
    /\ failedAt[target] # 0
    /\ run > failedAt[target]
    /\ result = "False"
    /\ events = <<>>

-----------------------------------------------------------------------------
(* Properties of parse_food_log, checked under SpecFood *)

Parsed == doc # None /\ foodOut # None

\* A bolded item bullet
IsItem(l) == l.bullet /\ l.bold # None

\* Format A: a calorie figure on the item's line, after a dash-like separator
HasInlineCal(l) == l.dash /\ l.cal # None

\* A nested sub-bullet that begins with a calorie figure
IsCalSubBullet(l) ==
    l.indent /\ l.bullet /\ l.bold = None /\ ~l.dash /\ l.cal # None

\* The line that carries the figures of the item on line j, if any
FigureLine(ls, j) ==
    IF ~IsItem(ls[j]) THEN None
    ELSE IF HasInlineCal(ls[j]) THEN Some(ls[j])
    ELSE IF j < Len(ls) /\ IsCalSubBullet(ls[j + 1]) THEN Some(ls[j + 1])
    ELSE None

Figure(opt) == IF opt = None THEN 0 ELSE opt[1] \div 10

\* One entry per calorie-bearing item of the lines from line j on
RECURSIVE ItemsFrom(_, _)
ItemsFrom(ls, j) ==
    IF j > Len(ls) THEN <<>>
    ELSE (IF FigureLine(ls, j) = None THEN <<>>
          ELSE <<[name |-> ls[j].bold[1], calories |-> FigureLine(ls, j)[1].cal[1],
                  protein |-> Figure(FigureLine(ls, j)[1].protein),
                  fat |-> Figure(FigureLine(ls, j)[1].fat),
                  carbs |-> Figure(FigureLine(ls, j)[1].carbs)]>>)
         \o ItemsFrom(ls, j + 1)

RECURSIVE ItemsOfChunks(_)
ItemsOfChunks(chunks) ==
    IF chunks = <<>> THEN <<>>
    ELSE ItemsFrom(Head(chunks).body, 1) \o ItemsOfChunks(Tail(chunks))

RECURSIVE WithoutTime(_)
WithoutTime(ms) ==
    IF ms = <<>> THEN <<>>
    ELSE <<[name |-> Head(ms).name, calories |-> Head(ms).calories,
            protein |-> Head(ms).protein, fat |-> Head(ms).fat,
            carbs |-> Head(ms).carbs]>> \o WithoutTime(Tail(ms))

\* C8: the meal list is, in document order, exactly one entry per bolded item
\* that has an inline calorie figure or, lacking one, is directly followed by
\* a sub-bullet beginning with a calorie figure; the figures come from the
\* line carrying the calorie figure and default to 0; an item without a
\* calorie figure yields nothing and hides no line after it.
C8_OneMealPerCalorieItem ==
    Parsed => WithoutTime(foodOut[1].meals) = ItemsOfChunks(doc[1].sections)

C8_SkippedItemThenSubBulletItem ==
    /\ Parsed
    /\ doc[1].sections = <<[head |-> HLunch, body |-> <<LWater, LChicken, LSub>>]>>
    /\ WithoutTime(foodOut[1].meals) =
          <<[name |-> "Grilled chicken", calories |-> 250, protein |-> 45,
             fat |-> 0, carbs |-> 0]>>

\* The figure the totals line carries for a field, truncated
LineFigure(t, f) ==
    IF f = "calories" THEN Get(t.cal, 0)
    ELSE IF f = "protein" THEN Figure(t.protein)
    ELSE IF f = "fat" THEN Figure(t.fat)
    ELSE Figure(t.carbs)

\* C5: each totals field is the totals line's figure for that field when the
\* line carries a non-zero one, whatever else the line carries; otherwise the
\* sum of the field over the meals, or 0 without meals.
C5_TotalsPerField ==
    Parsed =>
        \A f \in {"calories", "protein", "fat", "carbs"} :
            foodOut[1].totals[f] =
                IF doc[1].totals # None /\ LineFigure(doc[1].totals[1], f) # 0
                THEN LineFigure(doc[1].totals[1], f)
                ELSE MealSum(ItemsOfChunks(doc[1].sections), f)

\* The label of a chunk's own heading
HeadingLabel(head) ==
    IF head.time # None THEN <<head.time[1]>>
    ELSE IF head.word # None THEN <<head.word[1]>>
    ELSE <<>>

RECURSIVE LabelsOfChunks(_)
LabelsOfChunks(chunks) ==
    IF chunks = <<>> THEN <<>>
    ELSE [k \in 1..Len(ItemsFrom(Head(chunks).body, 1)) |->
              HeadingLabel(Head(chunks).head)]
         \o LabelsOfChunks(Tail(chunks))

RECURSIVE TimesOf(_)
TimesOf(ms) ==
    IF ms = <<>> THEN <<>> ELSE <<Head(ms).time>> \o TimesOf(Tail(ms))

\* C9: every meal's time label is the label of the heading of the chunk that
\* holds the item: the heading's clock time, else its leading word sequence;
\* never an earlier chunk's label and never text of the chunk's body.
C9_LabelFromOwnHeading ==
    Parsed => TimesOf(foodOut[1].meals) = LabelsOfChunks(doc[1].sections)

-----------------------------------------------------------------------------
(* Properties of parse_workouts, checked under SpecWorkout *)

\* A numbered line with a dash, an integer weight and a unit
Qualifies(l) == l.numbered /\ l.dash /\ l.weight # None /\ l.unit

\* C7: a qualifying line with a "N sets (a, b, c)" clause yields an entry
\* whose reps are the clause's contents without spaces and whose sets are the
\* sets of the line's N×M figure when it has one and the clause's N otherwise.
C7_SetsFromClause ==
    (doc # None /\ workOut # None /\ doc[1].workout # None) =>
        LET qs == SelectSeq(doc[1].workout[1], Qualifies) IN
        /\ Len(workOut[1]) = Len(qs)
        /\ \A k \in 1..Len(qs) :
              qs[k].clause # None =>
                  /\ workOut[1][k].name = qs[k].name
                  /\ workOut[1][k].weight = qs[k].weight[1]
                  /\ workOut[1][k].reps =
                        SelectSeq(qs[k].clause[1].inner, LAMBDA c : c # " ")
                  /\ workOut[1][k].sets =
                        (IF qs[k].xfig # None THEN qs[k].xfig[1].sets
                         ELSE qs[k].clause[1].count)

=============================================================================
